---------------------------- MODULE Spec2Model ----------------------------
(***************************************************************************)
(* The Go binding of the Unicorn CPU emulator (bindings/go/unicorn/       *)
(* unicorn.go) as a state machine.                                         *)
(*                                                                         *)
(* The binding is a shim over the engine's C interface (uc_open,           *)
(* uc_close, uc_emu_start, ...).  The binding's own state is the struct    *)
(* uc {handle, final}; every method reads u.handle and hands it to one    *)
(* engine function.  The engine itself is not part of unicorn.go: its      *)
(* functions are modelled from the specification (sections 4 to 7) and     *)
(* are marked as such at their definitions.                                *)
(*                                                                         *)
(* Goroutines are modelled by a call stack each: the bottom frame is the   *)
(* method the goroutine called, and while that frame is a Start blocked    *)
(* in a run, a hook callback may call a method of the same instance on     *)
(* top of it.  A method that hands u.handle to the engine takes two        *)
(* steps, the read of u.handle (argument evaluation) and the engine call,  *)
(* because Go gives no atomicity between them.                             *)
(***************************************************************************)
EXTENDS Integers, Sequences, FiniteSets, TLC

(***************************************************************************)
(* Bounds of the model.                                                    *)
(***************************************************************************)
\* Version numbers the engine may report: 0..MaxVer.
MaxVer == 2
\* Frames on one goroutine's stack: a Start and one call made from a hook.
MaxDepth == 2
\* Guest instructions one run executes before it must end.
MaxInsn == 2
\* Pages of guest address space.
NPages == 2
\* Longest byte slice handed to MemWrite, MemReadInto and MemRead.
MaxLen == 2

(***************************************************************************)
(* Program constants.                                                      *)
(***************************************************************************)
\* The version the binding was compiled against (unicorn.h).
UC_API_MAJOR == 1
UC_API_MINOR == 0

\* uc_err values.
ERR_OK == 0
ERR_NOMEM == 1
ERR_ARCH == 2
ERR_HANDLE == 3
ERR_MODE == 4
ERR_VERSION == 5
ERR_READ_UNMAPPED == 6
ERR_WRITE_UNMAPPED == 7
ERR_MAP == 11
ERR_WRITE_PROT == 12
ERR_READ_PROT == 13
ERR_ARG == 15
\* The specification's NotRunning and QueryInvalid.
ERR_NOTRUNNING == 22
ERR_QUERY == 23

\* Permission bits.
PROT_READ == 1
PROT_WRITE == 2
PROT_ALL == 7

\* The architecture's minimum mapping granularity, in bytes (scaled down).
PageSize == 2

\* The one engine handle uc_open can produce, and the nil pointer.
NULL == 0
H == 1

Procs == {"g1", "g2", "fin"}
\* Goroutines that hold the instance and call any method of it.
Users == {"g1", "g2"}
\* "fin" is the runtime's finalizer goroutine: it only ever calls Close.

VARIABLES
    \* NewUnicorn
    ucVersion,  \* the <<major, minor>> the linked engine reports
    newpc,      \* position of the NewUnicorn call
    newArgs,    \* its arguments <<arch, mode>>
    major,      \* NewUnicorn's locals
    minor,
    openCalls,  \* number of uc_open calls made
    newRet,     \* what NewUnicorn returned
    \* struct uc
    handle,     \* u.handle
    final,      \* u.final, the sync.Once: "fresh", "busy" (f running), "done"
    \* goroutines
    stack,      \* per goroutine, the frames of its calls in progress
    ret,        \* the call that ended last (until its goroutine calls again)
    fatal,      \* the process has died (Go panic or native crash)
    \* the engine instance behind H, a record:
    \*   alive      opened and not yet released
    \*   run        "idle" or "running"
    \*   stopReq    stop requested, checked at instruction boundaries
    \*   stopSeen   a stop was accepted during the current run: "", "hook", "other"
    \*   icount     instructions executed by the current run
    \*   closeCalls number of uc_close calls made
    \*   uaf        the engine was handed, or kept using, a released handle
    \*   regions    mapped regions, ascending by begin
    \*   mem        guest memory contents
    \*   regs       register file
    eng

newVars == <<ucVersion, newpc, newArgs, major, minor, openCalls, newRet>>
ucVars == <<handle, final>>
goVars == <<stack, ret, fatal>>
vars == <<ucVersion, newpc, newArgs, major, minor, openCalls, newRet, handle, final,
          stack, ret, fatal, eng>>

(***************************************************************************)
(* Go error values: nil, or a UcError carrying the engine's code.          *)
(***************************************************************************)
Nil == [kind |-> "nil", code |-> 0]

UcError(c) == [kind |-> "UcError", code |-> c]

\* A fault injected in place of errReturn: every code turns into nil.
errReturnAlwaysNil(err) == Nil

\* A fault injected in place of errReturn: ERR_OK turns into a non-nil error.
errReturnNeverNil(err) == UcError(err)

errReturn(err) == IF err # ERR_OK THEN UcError(err) ELSE Nil


(***************************************************************************)
(* NewUnicorn (unicorn.go 65-78).                                          *)
(***************************************************************************)
Versions == (0..MaxVer) \X (0..MaxVer)

\* Architectures and modes a caller may name; 0 is one the engine rejects.
Archs == {0, 1}
Modes == {0, 1}

\* A fault injected in place of VersionOk: the minor number is not compared.
VersionOkMajorOnly(ma, mi) == ma = UC_API_MAJOR

\* Line 68, negated: the reported pair is the compiled one.
VersionOk(ma, mi) == ~(ma # UC_API_MAJOR \/ mi # UC_API_MINOR)

\* uc_open, from the specification: open(arch, mode) -> EngineHandle | Error.
\* The codes it may return for <<arch, mode>>; ERR_OK comes with the handle H.
uc_open(arch, mode) ==
    IF arch = 0 THEN {ERR_ARCH}
    ELSE IF mode = 0 THEN {ERR_MODE}
    ELSE {ERR_OK, ERR_NOMEM}

NoRet == [inst |-> FALSE, err |-> Nil, ucerr |-> -1]

\* The call NewUnicorn(arch, mode) is made.
NewCall ==
    /\ newpc = "idle"
    /\ \E a \in Archs, m \in Modes : newArgs' = <<a, m>>
    /\ newpc' = "entry"
    /\ UNCHANGED <<ucVersion, major, minor, openCalls, newRet>>
    /\ UNCHANGED <<ucVars, goVars, eng>>

\* Line 67: C.uc_version(&major, &minor).
NewVersion ==
    /\ newpc = "entry"
    /\ major' = ucVersion[1]
    /\ minor' = ucVersion[2]
    /\ newpc' = "check"
    /\ UNCHANGED <<ucVersion, newArgs, openCalls, newRet>>
    /\ UNCHANGED <<ucVars, goVars, eng>>

\* Lines 68-70: the version check, and the early return of ERR_VERSION.
NewCheck ==
    /\ newpc = "check"
    /\ IF VersionOk(major, minor)
       THEN /\ newpc' = "open"
            /\ UNCHANGED newRet
       ELSE /\ newpc' = "done"
            /\ newRet' = [inst |-> FALSE, err |-> UcError(ERR_VERSION), ucerr |-> -1]
    /\ UNCHANGED <<ucVersion, newArgs, major, minor, openCalls>>
    /\ UNCHANGED <<ucVars, goVars, eng>>

\* Lines 71-77: uc_open, then the instance (and its finalizer) on ERR_OK.
NewOpen ==
    /\ newpc = "open"
    /\ \E ucerr \in uc_open(newArgs[1], newArgs[2]) :
         /\ openCalls' = openCalls + 1
         /\ IF ucerr # ERR_OK
            THEN /\ newRet' = [inst |-> FALSE, err |-> UcError(ucerr), ucerr |-> ucerr]
                 /\ UNCHANGED <<handle, eng>>
            ELSE /\ newRet' = [inst |-> TRUE, err |-> Nil, ucerr |-> ucerr]
                 /\ handle' = H
                 /\ eng' = [eng EXCEPT !.alive = TRUE]
    /\ newpc' = "done"
    /\ UNCHANGED <<ucVersion, newArgs, major, minor, final>>
    /\ UNCHANGED goVars

NewUnicorn == NewCall \/ NewVersion \/ NewCheck \/ NewOpen

(***************************************************************************)
(* The state of a fresh engine and of the goroutines before any call.      *)
(***************************************************************************)
Addrs == 0..(NPages * PageSize - 1)
\* Register identifiers of the architecture.
Regs == {1}

\* What ret holds: the call that ended last and its results.
\*   g        the goroutine that made the call
\*   outcome  "ret" (returned) or "panic"
\*   err      the Go error returned
\*   val      the value returned (bytes, a register value, regions)
\*   isnil    the returned slice is nil
\*   engine   an engine function was called
\*   ucerr    the code the engine function returned, -1 when none did
\*   hs       the handle the engine was handed: "", "live", "null", "released"
\*   began    Start: "closed" when Close had completed before the call began
\*   at       Start, Stop: the execution state of the live engine when the
\*            call reached it (for a call that panicked, when it was made)
\*   reason   Start: why the run ended
\*   stop     Start: the stop accepted during the run: "", "hook", "other"
\*   n, addr  the length and address of a memory call
R0(op) ==
    [g |-> "", op |-> op, outcome |-> "ret", err |-> Nil, val |-> << >>,
     isnil |-> FALSE, engine |-> FALSE, ucerr |-> -1, hs |-> "", began |-> "",
     at |-> "", reason |-> "", stop |-> "", n |-> 0, addr |-> 0]

EngineFresh(alive) ==
    [alive |-> alive, run |-> "idle", stopReq |-> FALSE, stopSeen |-> "",
     icount |-> 0, closeCalls |-> 0, uaf |-> FALSE, regions |-> << >>,
     mem |-> [a \in Addrs |-> 0], regs |-> [r \in Regs |-> 0]]

GoFresh ==
    /\ stack = [g \in Procs |-> << >>]
    /\ ret = R0("none")
    /\ fatal = FALSE
    /\ final = "fresh"

\* Before NewUnicorn is called: the engine library reports some version.
InitNew ==
    /\ ucVersion \in Versions
    /\ newpc = "idle"
    /\ newArgs = <<0, 0>>
    /\ major = 0
    /\ minor = 0
    /\ openCalls = 0
    /\ newRet = NoRet
    /\ handle = NULL
    /\ eng = EngineFresh(FALSE)
    /\ GoFresh

\* After NewUnicorn returned an instance: the version matched, uc_open
\* returned ERR_OK and its handle is stored in u.handle.
Init ==
    /\ ucVersion = <<UC_API_MAJOR, UC_API_MINOR>>
    /\ newpc = "done"
    /\ newArgs = <<1, 1>>
    /\ major = UC_API_MAJOR
    /\ minor = UC_API_MINOR
    /\ openCalls = 1
    /\ newRet = [inst |-> TRUE, err |-> Nil, ucerr |-> ERR_OK]
    /\ handle = H
    /\ eng = EngineFresh(TRUE)
    /\ GoFresh

SpecNew == InitNew /\ [][NewUnicorn]_vars

(***************************************************************************)
(* Goroutines and their calls.                                             *)
(***************************************************************************)
Depth(g) == Len(stack[g])

Top(g) == stack[g][Len(stack[g])]

\* Goroutine g is in a call whose innermost frame is op at stage.
At(g, op, stage) ==
    /\ ~fatal
    /\ stack[g] # << >>
    /\ Top(g).op = op
    /\ Top(g).stage = stage

StartOps == {"Start", "StartWithOptions"}

\* The frame of a Start that is blocked in a run.
IsRun(f) == f.op \in StartOps /\ f.stage = "run"

\* Goroutine g may call a method: it is in no call, or it is inside a hook
\* callback of the run its Start is blocked in.
CanCall(g) ==
    /\ ~fatal
    /\ newRet.inst
    /\ IF stack[g] = << >>
       THEN TRUE
       ELSE Depth(g) < MaxDepth /\ IsRun(Top(g))

\* A call g makes now is made from a hook callback.
InHook(g) == stack[g] # << >>

\* The frame of a call that has evaluated its arguments, u.handle among them.
Frame(op, stage, arg) ==
    [op |-> op, stage |-> stage, h |-> handle, arg |-> arg,
     began |-> IF op \notin StartOps THEN ""
               ELSE IF final = "done" THEN "closed" ELSE "open"]

\* Goroutine g makes a call, which takes frame f; what ret held of g's
\* previous call is dropped.
Begin(g, f) ==
    /\ stack' = [stack EXCEPT ![g] = Append(@, f)]
    /\ ret' = IF ret.g = g THEN R0("none") ELSE ret
    /\ fatal' = fatal

SetTop(g, f) == stack' = [stack EXCEPT ![g] = [@ EXCEPT ![Len(@)] = f]]

\* The innermost call of g returns r.
Return(g, r) ==
    /\ stack' = [stack EXCEPT ![g] = SubSeq(@, 1, Len(@) - 1)]
    /\ ret' = [r EXCEPT !.g = g]
    /\ fatal' = fatal

\* The call of g that r describes ends in a Go run-time panic, which nothing
\* here recovers: the process dies, and its goroutines with it.
Panic(g, r) ==
    /\ ret' = [r EXCEPT !.g = g, !.outcome = "panic"]
    /\ fatal' = TRUE
    /\ stack' = [p \in Procs |-> << >>]

\* The engine crashes the process under the innermost call of g.
Crash(g) ==
    /\ ret' = [R0(Top(g).op) EXCEPT !.g = g, !.outcome = "crash",
                                    !.engine = TRUE, !.hs = "released"]
    /\ fatal' = TRUE
    /\ stack' = [p \in Procs |-> << >>]

(***************************************************************************)
(* The engine, from the specification.  Each function maps the engine      *)
(* state e and its arguments to the set of its possible outcomes: a return *)
(* code (or a crash), the value written through its out-pointers, and the  *)
(* engine state it leaves.                                                 *)
(***************************************************************************)
Out(code, e) ==
    [code |-> code, crash |-> FALSE, entered |-> FALSE, reason |-> "",
     val |-> << >>, eng |-> e]

\* The engine's view of a handle it is handed.
HandleState(e, h) ==
    IF h = NULL THEN "null" ELSE IF e.alive THEN "live" ELSE "released"

\* The execution state a call with handle h finds, "" when h is not live.
RunState(e, h) == IF HandleState(e, h) = "live" THEN e.run ELSE ""

\* What a call on a released handle may return when it returns at all.
UBCodes == {ERR_OK, ERR_HANDLE}

\* A call with a handle that is not live.  An operation on a closed engine
\* fails with InvalidHandle (4.4).  A released handle is a dangling pointer:
\* what the engine does with it is undefined, here any return or a crash.
\* (The crash outcome leaves the process dead.)
DeadHandle(e, h) ==
    IF h = NULL
    THEN {Out(ERR_HANDLE, e)}
    ELSE {Out(c, [e EXCEPT !.uaf = TRUE]) : c \in UBCodes}
         \cup {[Out(ERR_OK, [e EXCEPT !.uaf = TRUE]) EXCEPT !.crash = TRUE]}

\* close(handle): releases the engine and all it owns (3, 5).
uc_close(e, h) ==
    LET e1 == [e EXCEPT !.closeCalls = @ + 1] IN
    IF HandleState(e, h) = "live"
    THEN {Out(ERR_OK, [e1 EXCEPT !.alive = FALSE])}
    ELSE DeadHandle(e1, h)

\* What start returns when the instance is already Running (4.4: it must
\* fail; the specification names no code).
ReentryCodes == {ERR_ARG, ERR_NOMEM}

\* start, on entry (4.4): Idle -> Running, guarded against re-entry.
uc_emu_start(e, h) ==
    IF HandleState(e, h) # "live" THEN DeadHandle(e, h)
    ELSE IF e.run = "running" THEN {Out(c, e) : c \in ReentryCodes}
    ELSE {[Out(ERR_OK, [e EXCEPT !.run = "running", !.stopReq = FALSE,
                                 !.stopSeen = "", !.icount = 0])
            EXCEPT !.entered = TRUE]}

\* The run loop may execute one more instruction (4.4, 5): no stop is
\* pending and the instruction count is not used up.
CanStep(e, options) ==
    /\ e.alive
    /\ e.run = "running"
    /\ ~e.stopReq
    /\ e.icount < MaxInsn
    /\ options.Count = 0 \/ e.icount < options.Count

uc_emu_step(e) == [e EXCEPT !.icount = @ + 1]

\* start, at an instruction boundary where the run ends (4.4 (a)-(e)).
\* Success for until, count, timeout and a requested stop; the error of the
\* fault otherwise.  The engine is Idle again when start returns.
uc_emu_exit(e, h, options) ==
    LET idle == [e EXCEPT !.run = "idle"]
        end(code, why) == [Out(code, idle) EXCEPT !.reason = why]
    IN  IF HandleState(e, h) # "live" THEN DeadHandle(idle, h)
        ELSE IF e.stopReq THEN {end(ERR_OK, "stop")}
        ELSE IF options.Count # 0 /\ e.icount >= options.Count
             THEN {end(ERR_OK, "count")}
        ELSE {end(ERR_OK, "until"), end(ERR_READ_UNMAPPED, "fault")}
             \cup (IF options.Timeout # 0 THEN {end(ERR_OK, "timeout")} ELSE {})

\* stop (4.4): fails with NotRunning when Idle; otherwise the request takes
\* effect at the next instruction boundary.  inHook: the caller is a hook.
uc_emu_stop(e, h, inHook) ==
    IF HandleState(e, h) # "live" THEN DeadHandle(e, h)
    ELSE IF e.run = "idle" THEN {Out(ERR_NOTRUNNING, e)}
    ELSE {Out(ERR_OK, [e EXCEPT !.stopReq = TRUE,
                                !.stopSeen = IF inHook \/ @ = "hook"
                                             THEN "hook" ELSE "other"])}

\* Query types: the mode, and one the engine does not know.
QueryTypes == {1, 2}

\* query (4.4): an introspection value, state unaltered.
uc_query(e, h, queryType) ==
    IF HandleState(e, h) # "live" THEN DeadHandle(e, h)
    ELSE IF queryType = 1 THEN {[Out(ERR_OK, e) EXCEPT !.val = <<newArgs[2]>>]}
    ELSE {Out(ERR_QUERY, e)}

(***************************************************************************)
(* The binding's methods.                                                  *)
(***************************************************************************)
\* The innermost call of g, the method op, gets outcome o from the engine
\* function it handed the handle in its frame; base holds the values the
\* method returns beside the error.
Finish(g, op, o, base) ==
    /\ eng' = o.eng
    /\ IF o.crash
       THEN Crash(g)
       ELSE Return(g, [base EXCEPT !.op = op,
                                   !.engine = TRUE,
                                   !.ucerr = o.code,
                                   !.hs = HandleState(eng, Top(g).h),
                                   !.began = Top(g).began,
                                   !.err = errReturn(o.code)])

\* A fault injected in place of OnceMayRun: f may run while it is running
\* (no mutual exclusion between the callers of Do).
OnceMayRunUnlocked(o) == o # "done"

\* sync.Once.Do runs f for the first caller only; a caller that arrives
\* while f runs waits for it, one that arrives after it returns at once.
OnceMayRun(o) == o = "fresh"

\* Line 81, u.final.Do: f begins, or Do returns at once and Close returns the
\* zero value of err.
CloseDo(g) ==
    /\ CanCall(g)
    /\ \/ /\ OnceMayRun(final)
          /\ final' = "busy"
          /\ Begin(g, Frame("Close", "body", ERR_OK))
       \/ /\ final = "done"
          /\ ret' = [R0("Close") EXCEPT !.g = g]
          /\ UNCHANGED <<final, stack, fatal>>
    /\ UNCHANGED <<newVars, handle, eng>>

\* Lines 82-83: err = errReturn(C.uc_close(u.handle)) when u.handle is not nil.
CloseRelease(g) ==
    /\ At(g, "Close", "body")
    /\ IF handle # NULL
       THEN \E o \in uc_close(eng, handle) :
              /\ eng' = o.eng
              /\ IF o.crash
                 THEN Crash(g)
                 ELSE /\ SetTop(g, [Top(g) EXCEPT !.stage = "clear", !.arg = o.code])
                      /\ UNCHANGED <<ret, fatal>>
       ELSE /\ SetTop(g, [Top(g) EXCEPT !.stage = "skip"])
            /\ UNCHANGED <<eng, ret, fatal>>
    /\ UNCHANGED <<newVars, ucVars>>

\* Line 84, u.handle = nil; then f and Do return, and Close returns err.
CloseClear(g) ==
    /\ \/ /\ At(g, "Close", "clear")
          /\ handle' = NULL
          /\ Return(g, [R0("Close") EXCEPT !.engine = TRUE,
                                           !.ucerr = Top(g).arg,
                                           !.err = errReturn(Top(g).arg)])
       \/ /\ At(g, "Close", "skip")
          /\ handle' = handle
          /\ Return(g, R0("Close"))
    /\ final' = "done"
    /\ UNCHANGED <<newVars, eng>>

\* Close (80-88).
Close(g) == CloseDo(g) \/ CloseRelease(g) \/ CloseClear(g)

\* *UcOptions values a caller may pass: nil, or a struct.
NilOptions == [nil |-> TRUE, Timeout |-> 0, Count |-> 0]

Options(t, c) == [nil |-> FALSE, Timeout |-> t, Count |-> c]

OptionsArgs == {NilOptions, Options(0, 0), Options(1, 1)}

\* Line 91, the arguments of C.uc_emu_start are evaluated: u.handle is read,
\* and options.Timeout dereferences options (a run-time panic when nil).
StartWithOptionsArgs(g, op, options) ==
    /\ CanCall(g)
    /\ IF options.nil
       THEN Panic(g, [R0(op) EXCEPT !.began = Frame(op, "call", options).began,
                                    !.at = RunState(eng, handle)])
       ELSE Begin(g, Frame(op, "call", options))
    /\ UNCHANGED <<newVars, ucVars, eng>>

\* Line 91, C.uc_emu_start is entered; line 92 when it returns at once.
StartWithOptionsCall(g) ==
    /\ \E op \in StartOps : At(g, op, "call")
    /\ \E o \in uc_emu_start(eng, Top(g).h) :
         IF o.entered
         THEN /\ eng' = o.eng
              /\ SetTop(g, [Top(g) EXCEPT !.stage = "run"])
              /\ UNCHANGED <<ret, fatal>>
         ELSE Finish(g, Top(g).op, o,
                     [R0(Top(g).op) EXCEPT !.at = RunState(eng, Top(g).h)])
    /\ UNCHANGED <<newVars, ucVars>>

\* The run of g's Start executes one guest instruction.
EmuStep(g) ==
    /\ ~fatal
    /\ stack[g] # << >>
    /\ IsRun(Top(g))
    /\ CanStep(eng, Top(g).arg)
    /\ eng' = uc_emu_step(eng)
    /\ UNCHANGED <<newVars, ucVars, goVars>>

\* The run ends: C.uc_emu_start returns, and line 92 returns errReturn(ucerr).
StartWithOptionsReturn(g) ==
    /\ ~fatal
    /\ stack[g] # << >>
    /\ IsRun(Top(g))
    /\ \E o \in uc_emu_exit(eng, Top(g).h, Top(g).arg) :
         Finish(g, Top(g).op, o,
                [R0(Top(g).op) EXCEPT !.at = "idle",
                                      !.reason = o.reason,
                                      !.stop = eng.stopSeen])
    /\ UNCHANGED <<newVars, ucVars>>

\* StartWithOptions (90-93).
StartWithOptions(g) ==
    \/ \E options \in OptionsArgs :
         StartWithOptionsArgs(g, "StartWithOptions", options)
    \/ StartWithOptionsCall(g)
    \/ EmuStep(g)
    \/ StartWithOptionsReturn(g)

\* Start (95-97): StartWithOptions with &UcOptions{}.
Start(g) == StartWithOptionsArgs(g, "Start", Options(0, 0))

\* Line 100, u.handle is read.
StopArgs(g) ==
    /\ CanCall(g)
    /\ Begin(g, Frame("Stop", "call", InHook(g)))
    /\ UNCHANGED <<newVars, ucVars, eng>>

\* Line 100, C.uc_emu_stop and errReturn.
StopCall(g) ==
    /\ At(g, "Stop", "call")
    /\ \E o \in uc_emu_stop(eng, Top(g).h, Top(g).arg) :
         Finish(g, "Stop", o, [R0("Stop") EXCEPT !.at = RunState(eng, Top(g).h)])
    /\ UNCHANGED <<newVars, ucVars>>

\* Stop (99-101).
Stop(g) == StopArgs(g) \/ StopCall(g)

\* Line 175, u.handle is read.
QueryArgs(g) ==
    /\ CanCall(g)
    /\ \E queryType \in QueryTypes : Begin(g, Frame("Query", "call", queryType))
    /\ UNCHANGED <<newVars, ucVars, eng>>

\* Lines 174-176: ret starts at 0; C.uc_query; uint64(ret), errReturn(ucerr).
QueryCall(g) ==
    /\ At(g, "Query", "call")
    /\ \E o \in uc_query(eng, Top(g).h, Top(g).arg) :
         Finish(g, "Query", o,
                [R0("Query") EXCEPT !.val = IF o.val = << >> THEN <<0>> ELSE o.val])
    /\ UNCHANGED <<newVars, ucVars>>

\* Query (173-177).
Query(g) == QueryArgs(g) \/ QueryCall(g)

(***************************************************************************)
(* The life of one instance: goroutines g1 and g2 call Close, Start,       *)
(* StartWithOptions, Stop and Query in any interleaving (from hooks too),  *)
(* and the finalizer goroutine calls Close.                                *)
(***************************************************************************)
Next ==
    \/ \E g \in Procs : Close(g)
    \/ \E g \in Users : Start(g)
    \/ \E g \in Users : StartWithOptions(g)
    \/ \E g \in Users : Stop(g)
    \/ \E g \in Users : Query(g)

Spec == Init /\ [][Next]_vars

(***************************************************************************)
(* The engine's address space and register file, from the specification    *)
(* (4.1, 4.2).  A region is [begin, end, perms], end inclusive; the list    *)
(* is kept in ascending order of begin and its regions never overlap.       *)
(***************************************************************************)
AddrLimit == NPages * PageSize

Aligned(x) == x % PageSize = 0

HasRead(perms) == (perms \div PROT_READ) % 2 = 1

HasWrite(perms) == (perms \div PROT_WRITE) % 2 = 1

Covers(r, a) == r.begin <= a /\ a <= r.end

IsMapped(e, a) == \E i \in 1..Len(e.regions) : Covers(e.regions[i], a)

\* The permissions of the region that holds the mapped address a.
PermsAt(e, a) ==
    e.regions[CHOOSE i \in 1..Len(e.regions) : Covers(e.regions[i], a)].perms

\* The addresses addr .. addr + size - 1.
Span(addr, size) == addr..(addr + size - 1)

Before(rs, b) == SelectSeq(rs, LAMBDA r : r.begin < b)

After(rs, b) == SelectSeq(rs, LAMBDA r : r.begin > b)

\* What is left of region r when lo..hi is cut out of it and mid (a
\* sequence of at most one region) put in its place.
Cut(r, lo, hi, mid) ==
    IF r.end < lo \/ hi < r.begin THEN <<r>>
    ELSE (IF r.begin < lo THEN <<[r EXCEPT !.end = lo - 1]>> ELSE << >>)
         \o mid
         \o (IF hi < r.end THEN <<[r EXCEPT !.begin = hi + 1]>> ELSE << >>)

Max(a, b) == IF a > b THEN a ELSE b

Min(a, b) == IF a < b THEN a ELSE b

\* The region list with lo..hi given permissions perms (keep) or removed.
RECURSIVE Recut(_, _, _, _, _)
Recut(rs, lo, hi, perms, keep) ==
    IF rs = << >> THEN << >>
    ELSE LET r == Head(rs)
             mid == IF keep
                    THEN <<[begin |-> Max(r.begin, lo), end |-> Min(r.end, hi),
                            perms |-> perms]>>
                    ELSE << >>
         IN  Cut(r, lo, hi, mid) \o Recut(Tail(rs), lo, hi, perms, keep)

\* map and mapBacked (4.1): InvalidArgument for a zero or unaligned size (or
\* a range that leaves the address space), MapOverlap for a range that meets
\* a region; the new region is zero-filled unless the host backs it.
uc_mem_map(e, h, addr, size, perms, backed) ==
    IF HandleState(e, h) # "live" THEN DeadHandle(e, h)
    ELSE IF size = 0 \/ ~Aligned(addr) \/ ~Aligned(size) \/ addr + size > AddrLimit
         THEN {Out(ERR_ARG, e)}
    ELSE IF \E a \in Span(addr, size) : IsMapped(e, a) THEN {Out(ERR_MAP, e)}
    ELSE LET r == [begin |-> addr, end |-> addr + size - 1, perms |-> perms] IN
         {Out(ERR_OK,
              [e EXCEPT !.regions = Before(@, addr) \o <<r>> \o After(@, addr),
                        !.mem = [a \in Addrs |->
                                   IF a \in Span(addr, size) /\ ~backed
                                   THEN 0 ELSE @[a]]])}

\* protect (4.1): NoMem unless the whole range is mapped; contents are kept.
uc_mem_protect(e, h, addr, size, perms) ==
    IF HandleState(e, h) # "live" THEN DeadHandle(e, h)
    ELSE IF size = 0 THEN {Out(ERR_OK, e)}
    ELSE IF ~Aligned(addr) \/ ~Aligned(size) THEN {Out(ERR_ARG, e)}
    ELSE IF \E a \in Span(addr, size) : ~IsMapped(e, a) THEN {Out(ERR_NOMEM, e)}
    ELSE {Out(ERR_OK,
              [e EXCEPT !.regions = Recut(@, addr, addr + size - 1, perms, TRUE)])}

\* unmap (4.1): NoMem unless the whole range is mapped.
uc_mem_unmap(e, h, addr, size) ==
    IF HandleState(e, h) # "live" THEN DeadHandle(e, h)
    ELSE IF size = 0 THEN {Out(ERR_OK, e)}
    ELSE IF ~Aligned(addr) \/ ~Aligned(size) THEN {Out(ERR_ARG, e)}
    ELSE IF \E a \in Span(addr, size) : ~IsMapped(e, a) THEN {Out(ERR_NOMEM, e)}
    ELSE {Out(ERR_OK,
              [e EXCEPT !.regions = Recut(@, addr, addr + size - 1, 0, FALSE),
                        !.mem = [a \in Addrs |->
                                   IF a \in Span(addr, size) THEN 0 ELSE @[a]]])}

\* read (4.1): byte-exact; ReadUnmapped when a byte is outside every region,
\* ReadProt when one lacks READ; a zero-length read succeeds.
uc_mem_read(e, h, addr, size) ==
    IF HandleState(e, h) # "live" THEN DeadHandle(e, h)
    ELSE IF size = 0 THEN {Out(ERR_OK, e)}
    ELSE IF \E a \in Span(addr, size) : ~IsMapped(e, a)
         THEN {Out(ERR_READ_UNMAPPED, e)}
    ELSE IF \E a \in Span(addr, size) : ~HasRead(PermsAt(e, a))
         THEN {Out(ERR_READ_PROT, e)}
    ELSE {[Out(ERR_OK, e) EXCEPT !.val = [i \in 1..size |-> e.mem[addr + i - 1]]]}

\* write (4.1): as read, with WriteUnmapped and WriteProt.
uc_mem_write(e, h, addr, bytes) ==
    IF HandleState(e, h) # "live" THEN DeadHandle(e, h)
    ELSE IF bytes = << >> THEN {Out(ERR_OK, e)}
    ELSE IF \E a \in Span(addr, Len(bytes)) : ~IsMapped(e, a)
         THEN {Out(ERR_WRITE_UNMAPPED, e)}
    ELSE IF \E a \in Span(addr, Len(bytes)) : ~HasWrite(PermsAt(e, a))
         THEN {Out(ERR_WRITE_PROT, e)}
    ELSE {Out(ERR_OK,
              [e EXCEPT !.mem = [a \in Addrs |->
                                   IF a \in Span(addr, Len(bytes))
                                   THEN bytes[a - addr + 1] ELSE @[a]]])}

\* regions (4.1): the current region list, ascending, as a fresh array and
\* its count.  The specification does not say what the array pointer is when
\* there is no region: val[1] is TRUE when the pointer is NULL, which only
\* an empty list allows; val[2] is the array.
uc_mem_regions(e, h) ==
    IF HandleState(e, h) # "live" THEN DeadHandle(e, h)
    ELSE {[Out(ERR_OK, e) EXCEPT !.val = <<null, e.regions>>] :
            null \in IF e.regions = << >> THEN {TRUE, FALSE} ELSE {FALSE}}

\* register read and write (4.2): InvalidArgument for an unknown identifier.
uc_reg_read(e, h, reg) ==
    IF HandleState(e, h) # "live" THEN DeadHandle(e, h)
    ELSE IF reg \notin Regs THEN {Out(ERR_ARG, e)}
    ELSE {[Out(ERR_OK, e) EXCEPT !.val = <<e.regs[reg]>>]}

uc_reg_write(e, h, reg, value) ==
    IF HandleState(e, h) # "live" THEN DeadHandle(e, h)
    ELSE IF reg \notin Regs THEN {Out(ERR_ARG, e)}
    ELSE {Out(ERR_OK, [e EXCEPT !.regs[reg] = value])}

(***************************************************************************)
(* The binding's memory and register methods.                              *)
(***************************************************************************)
\* Arguments callers pass: addresses, base addresses of ranges (the page
\* boundaries and an unaligned one), sizes (zero, unaligned, one page, all
\* pages), permissions, byte slices (by length), registers, values.
BaseArgs == {a \in Addrs : Aligned(a) \/ a = 1}
SizeArgs == {0, 1, PageSize, AddrLimit}
ProtArgs == {PROT_READ, PROT_ALL}
LenArgs == 0..MaxLen
RegArgs == Regs \cup {0}
ValueArgs == {0, 1}

Bytes(n, b) == [i \in 1..n |-> b]

\* g calls a method that reads u.handle and goes on to one engine function.
Call(g, op, arg) ==
    /\ CanCall(g)
    /\ Begin(g, Frame(op, "call", arg))
    /\ UNCHANGED <<newVars, ucVars, eng>>

\* g calls a method that returns r without reaching the engine.
ReturnAtOnce(g, r) ==
    /\ CanCall(g)
    /\ ret' = [r EXCEPT !.g = g]
    /\ UNCHANGED <<newVars, ucVars, eng, stack, fatal>>

\* The largest region array MemRegions can view: the [1 << 24] of line 123.
MaxRegionView == 16777216

\* Lines 116-118: u.handle is read for C.uc_mem_regions.
MemRegionsArgs(g) == Call(g, "MemRegions", 0)

\* The Go view of a region descriptor (125-129).
MemRegionOf(v) == [Begin |-> v.begin, End |-> v.end, Prot |-> v.perms]

\* Lines 118-131: C.uc_mem_regions; nil and the error when it fails; else
\* the array behind regions is sliced to count entries (a run-time panic when
\* regions is nil or count exceeds the array type) and copied.
MemRegionsCall(g) ==
    /\ At(g, "MemRegions", "call")
    /\ \E o \in uc_mem_regions(eng, Top(g).h) :
         IF o.crash \/ o.code # ERR_OK
         THEN Finish(g, "MemRegions", o, [R0("MemRegions") EXCEPT !.isnil = TRUE])
         ELSE IF o.val[1] \/ Len(o.val[2]) > MaxRegionView
         THEN /\ eng' = o.eng
              /\ Panic(g, [R0("MemRegions") EXCEPT !.engine = TRUE,
                                                   !.ucerr = o.code,
                                                   !.hs = "live"])
         ELSE /\ eng' = o.eng
              /\ Return(g, [R0("MemRegions") EXCEPT
                              !.engine = TRUE, !.ucerr = o.code, !.hs = "live",
                              !.val = [i \in 1..Len(o.val[2]) |->
                                         MemRegionOf(o.val[2][i])]])
    /\ UNCHANGED <<newVars, ucVars>>

\* MemRegions (115-132).
MemRegions(g) == MemRegionsArgs(g) \/ MemRegionsCall(g)

\* A fault injected in place of IsEmpty: the length check never holds.
IsEmptyNever(b) == FALSE

\* Lines 135 and 142: len(b) == 0.
IsEmpty(b) == Len(b) = 0

\* Lines 135-138: nil at once for empty data; else u.handle is read.
MemWriteArgs(g) ==
    \E addr \in Addrs, n \in LenArgs :
       LET data == Bytes(n, 1)
           r == [R0("MemWrite") EXCEPT !.n = n, !.addr = addr] IN
       IF IsEmpty(data)
       THEN ReturnAtOnce(g, r)
       ELSE Call(g, "MemWrite", [addr |-> addr, data |-> data, r |-> r])

\* Line 138: C.uc_mem_write and errReturn.
MemWriteCall(g) ==
    /\ At(g, "MemWrite", "call")
    /\ \E o \in uc_mem_write(eng, Top(g).h, Top(g).arg.addr, Top(g).arg.data) :
         Finish(g, "MemWrite", o, Top(g).arg.r)
    /\ UNCHANGED <<newVars, ucVars>>

\* MemWrite (134-139).
MemWrite(g) == MemWriteArgs(g) \/ MemWriteCall(g)

\* Lines 142-145 for the method op (MemReadInto, or MemRead which calls it
\* with dst): nil at once for an empty dst, which is returned as it is;
\* else u.handle is read.
MemReadIntoArgs(g, op, dst, addr) ==
    LET r == [R0(op) EXCEPT !.n = Len(dst), !.addr = addr, !.val = dst] IN
    IF IsEmpty(dst)
    THEN ReturnAtOnce(g, r)
    ELSE Call(g, op, [addr |-> addr, dst |-> dst, r |-> r])

\* Line 145: C.uc_mem_read fills dst when it succeeds; errReturn.
MemReadIntoCall(g) ==
    /\ \E op \in {"MemReadInto", "MemRead"} : At(g, op, "call")
    /\ \E o \in uc_mem_read(eng, Top(g).h, Top(g).arg.addr, Len(Top(g).arg.dst)) :
         Finish(g, Top(g).op, o,
                [Top(g).arg.r EXCEPT
                   !.val = IF o.code = ERR_OK /\ o.val # << >> THEN o.val ELSE @])
    /\ UNCHANGED <<newVars, ucVars>>

\* MemReadInto (141-146), with a dst the caller filled with 1s.
MemReadInto(g) ==
    \/ \E addr \in Addrs, n \in LenArgs :
         MemReadIntoArgs(g, "MemReadInto", Bytes(n, 1), addr)
    \/ MemReadIntoCall(g)

\* MemRead (148-151): dst := make([]byte, size), then MemReadInto(dst, addr).
MemRead(g) ==
    \E addr \in Addrs, size \in LenArgs :
       MemReadIntoArgs(g, "MemRead", Bytes(size, 0), addr)

\* Line 154, u.handle is read, for the method op (MemMapProt, or MemMap which
\* calls it with PROT_ALL).
MemMapProtArgs(g, op, addr, size, prot) ==
    Call(g, op, [addr |-> addr, size |-> size, prot |-> prot, ptr |-> FALSE])

\* Lines 154 and 162: C.uc_mem_map, or C.uc_mem_map_ptr, and errReturn.
MemMapCall(g) ==
    /\ \E op \in {"MemMap", "MemMapProt", "MemMapPtr"} : At(g, op, "call")
    /\ \E o \in uc_mem_map(eng, Top(g).h, Top(g).arg.addr, Top(g).arg.size,
                           Top(g).arg.prot, Top(g).arg.ptr) :
         Finish(g, Top(g).op, o, R0(Top(g).op))
    /\ UNCHANGED <<newVars, ucVars>>

\* MemMapProt (153-155).
MemMapProt(g) ==
    \/ \E addr \in BaseArgs, size \in SizeArgs, prot \in ProtArgs :
         MemMapProtArgs(g, "MemMapProt", addr, size, prot)
    \/ MemMapCall(g)

\* MemMap (157-159).
MemMap(g) ==
    \E addr \in BaseArgs, size \in SizeArgs :
       MemMapProtArgs(g, "MemMap", addr, size, PROT_ALL)

\* MemMapPtr (161-163): the host buffer ptr backs the region.
MemMapPtr(g) ==
    \E addr \in BaseArgs, size \in SizeArgs, prot \in ProtArgs :
       Call(g, "MemMapPtr", [addr |-> addr, size |-> size, prot |-> prot, ptr |-> TRUE])

\* MemProtect (165-167).
MemProtect(g) ==
    \/ \E addr \in BaseArgs, size \in SizeArgs, prot \in ProtArgs :
         Call(g, "MemProtect", [addr |-> addr, size |-> size, prot |-> prot])
    \/ /\ At(g, "MemProtect", "call")
       /\ \E o \in uc_mem_protect(eng, Top(g).h, Top(g).arg.addr, Top(g).arg.size,
                                  Top(g).arg.prot) :
            Finish(g, "MemProtect", o, R0("MemProtect"))
       /\ UNCHANGED <<newVars, ucVars>>

\* MemUnmap (169-171).
MemUnmap(g) ==
    \/ \E addr \in BaseArgs, size \in SizeArgs :
         Call(g, "MemUnmap", [addr |-> addr, size |-> size])
    \/ /\ At(g, "MemUnmap", "call")
       /\ \E o \in uc_mem_unmap(eng, Top(g).h, Top(g).arg.addr, Top(g).arg.size) :
            Finish(g, "MemUnmap", o, R0("MemUnmap"))
       /\ UNCHANGED <<newVars, ucVars>>

\* RegWrite (103-107).
RegWrite(g) ==
    \/ \E reg \in RegArgs, value \in ValueArgs :
         Call(g, "RegWrite", [reg |-> reg, value |-> value])
    \/ /\ At(g, "RegWrite", "call")
       /\ \E o \in uc_reg_write(eng, Top(g).h, Top(g).arg.reg, Top(g).arg.value) :
            Finish(g, "RegWrite", o, R0("RegWrite"))
       /\ UNCHANGED <<newVars, ucVars>>

\* RegRead (109-113): val starts at 0 and is returned beside the error.
RegRead(g) ==
    \/ \E reg \in RegArgs : Call(g, "RegRead", reg)
    \/ /\ At(g, "RegRead", "call")
       /\ \E o \in uc_reg_read(eng, Top(g).h, Top(g).arg) :
            Finish(g, "RegRead", o,
                   [R0("RegRead") EXCEPT !.val = IF o.val = << >> THEN <<0>> ELSE o.val])
       /\ UNCHANGED <<newVars, ucVars>>

(***************************************************************************)
(* One goroutine works on the instance's memory and registers, and may     *)
(* close it at any point.                                                  *)
(***************************************************************************)
NextMem ==
    \E g \in {"g1"} :
       \/ MemMap(g)
       \/ MemMapProt(g)
       \/ MemMapPtr(g)
       \/ MemProtect(g)
       \/ MemUnmap(g)
       \/ MemRegions(g)
       \/ MemRead(g)
       \/ MemReadInto(g)
       \/ MemWrite(g)
       \/ RegRead(g)
       \/ RegWrite(g)
       \/ Close(g)

SpecMem == Init /\ [][NextMem]_vars

(***************************************************************************)
(* Properties.                                                             *)
(***************************************************************************)
Compiled == <<UC_API_MAJOR, UC_API_MINOR>>

\* The frames, of any goroutine, of a Start blocked in a run.
RunFrames ==
    {<<g, i>> \in Procs \X (1..MaxDepth) : i <= Len(stack[g]) /\ IsRun(stack[g][i])}

\* The step ends a call of op (its frame is popped and ret describes it).
Returns(op) ==
    /\ ret'.op = op
    /\ ret'.outcome = "ret"
    /\ ret'.g \in Procs
    /\ Len(stack'[ret'.g]) < Len(stack[ret'.g])

\* C1: for one instance, over every interleaving of Close calls (explicit,
\* from any goroutine or hook, and the finalizer's), uc_close is invoked at
\* most once, and every Close call other than the one that made the release
\* returns nil and changes neither u.handle, u.final nor the engine.
C1_CloseOnce ==
    /\ [](/\ eng.closeCalls <= 1
          /\ (ret.op = "Close" /\ ~ret.engine) =>
                 (ret.outcome = "ret" /\ ret.err = Nil))
    /\ [][(ret' # ret /\ ret'.op = "Close" /\ ~ret'.engine) =>
              UNCHANGED <<handle, final, eng>>]_vars

\* C1's case: the release was made, and the finalizer's Close, arriving
\* later, returned without making it.
C1_Witness ==
    /\ eng.closeCalls = 1
    /\ ~eng.alive
    /\ ret.op = "Close"
    /\ ret.g = "fin"
    /\ ~ret.engine
    /\ ret.err = Nil

\* C2, as claimed: every Start and StartWithOptions call made after Close has
\* completed returns the InvalidHandle error, and none begins a run.
C2_StartAfterClose ==
    /\ (ret.op \in StartOps /\ ret.began = "closed") =>
           (ret.outcome = "ret" /\ ret.err = UcError(ERR_HANDLE))
    /\ \A g \in Procs : \A i \in 1..Len(stack[g]) :
           stack[g][i].began = "closed" => stack[g][i].stage # "run"

\* C3, as claimed: a Start or StartWithOptions call made while a run is
\* active on the instance returns an error, and never are two runs active.
C3_NoReentry ==
    /\ Cardinality(RunFrames) <= 1
    /\ (ret.op \in StartOps /\ ret.at = "running") =>
           (ret.outcome = "ret" /\ ret.err # Nil)

\* C4: a Stop that reaches the open instance while it is Idle returns the
\* NotRunning error, and the call leaves the engine as it was (Idle, with no
\* stop request for the next Start to find).
C4_StopIdle ==
    /\ []((ret.op = "Stop" /\ ret.outcome = "ret" /\ ret.at = "idle") =>
              ret.err = UcError(ERR_NOTRUNNING))
    /\ [][(Returns("Stop") /\ ret'.at = "idle") =>
              (eng' = eng /\ eng.run = "idle")]_vars

\* C4's case: a Start has returned, and a Stop after it found the instance
\* Idle and returned NotRunning.
C4_Witness ==
    /\ ret.op = "Stop"
    /\ ret.at = "idle"
    /\ ret.hs = "live"
    /\ ret.err = UcError(ERR_NOTRUNNING)
    /\ eng.icount > 0
    /\ eng.run = "idle"

C6_VersionFirst ==
    /\ openCalls > 0 => (ucVersion = Compiled /\ newpc = "done")
    /\ (newpc = "done" /\ ucVersion # Compiled) =>
           (/\ newRet = [inst |-> FALSE, err |-> UcError(ERR_VERSION), ucerr |-> -1]
            /\ openCalls = 0
            /\ handle = NULL)
    /\ newRet.inst => (newRet.ucerr = ERR_OK /\ newRet.err = Nil /\ handle = H)
    /\ (newpc = "done" /\ ~newRet.inst) => (newRet.err # Nil /\ handle = NULL)

\* C6's case: the engine reports the compiled major with another minor, and
\* NewUnicorn has returned ERR_VERSION.
C6_Witness ==
    /\ newpc = "done"
    /\ ucVersion[1] = UC_API_MAJOR
    /\ ucVersion[2] # UC_API_MINOR
    /\ newRet.err = UcError(ERR_VERSION)

\* C8, as claimed: every call ends by returning (no panic, no crash), with a
\* nil error exactly when the engine's code is ERR_OK and the engine's code
\* in the error otherwise.
C8_AlwaysReturns ==
    /\ ret.outcome = "ret"
    /\ ret.engine =>
           ret.err = (IF ret.ucerr = ERR_OK THEN Nil ELSE UcError(ret.ucerr))

\* C10, as claimed: the engine is never handed, and never keeps using, a
\* handle that was passed to uc_close; and once Close has completed u.handle
\* is nil.
C10_NoReleasedHandle ==
    /\ ~eng.uaf
    /\ final = "done" => handle = NULL

MemOps == {"MemWrite", "MemReadInto", "MemRead"}

\* C7: a zero-length MemWrite, MemReadInto or MemRead, at any address and in
\* any state of the instance, returns a nil error (and MemRead an empty
\* slice) without calling the engine, and the call changes neither the
\* engine (memory, regions, registers) nor the instance.
C7_ZeroLength ==
    /\ []((ret.op \in MemOps /\ ret.n = 0) =>
              (/\ ret.outcome = "ret"
               /\ ret.err = Nil
               /\ ~ret.engine
               /\ ret.val = << >>))
    /\ [][(ret' # ret /\ ret'.op \in MemOps /\ ret'.n = 0) =>
              UNCHANGED <<eng, handle, final>>]_vars

\* C7's case: a zero-length MemWrite at an address that is mapped without
\* WRITE permission, on an open instance, has returned nil.
C7_Witness ==
    /\ ret.op = "MemWrite"
    /\ ret.n = 0
    /\ ret.err = Nil
    /\ eng.alive
    /\ IsMapped(eng, ret.addr)
    /\ ~HasWrite(PermsAt(eng, ret.addr))

Ascending(rs) == \A i \in 1..(Len(rs) - 1) : rs[i].Begin < rs[i + 1].Begin

\* C9, as claimed: a MemRegions call that reaches the engine returns, for
\* every count the engine reports (0 too), a list of exactly that many
\* entries, entry i with the Begin, End and Prot of the engine's i-th region,
\* in ascending order of Begin; and a nil list with the error when the
\* engine reports one.
C9_RegionsSnapshot ==
    (ret.op = "MemRegions" /\ ret.engine) =>
        IF ret.ucerr = ERR_OK
        THEN /\ ret.outcome = "ret"
             /\ ret.err = Nil
             /\ Len(ret.val) = Len(eng.regions)
             /\ \A i \in 1..Len(ret.val) : ret.val[i] = MemRegionOf(eng.regions[i])
             /\ Ascending(ret.val)
        ELSE /\ ret.outcome = "ret"
             /\ ret.isnil
             /\ ret.val = << >>
             /\ ret.err = UcError(ret.ucerr)

=============================================================================
